---- MODULE Spec2Model ----
(***************************************************************************)
(* A model of src/src/http_client.py: Token, and AuthenticatedHttpClient   *)
(* (the authenticated session manager of the Rockstar plugin).             *)
(*                                                                         *)
(* Python values are modelled as strings; None is the string "None".  A    *)
(* method is an operator on a context record c: the fields of self, the    *)
(* list ev of the observable events of the running call (requests sent,    *)
(* callbacks invoked, steps entered) and raised, which is TRUE once an     *)
(* exception is propagating out of the call.                               *)
(***************************************************************************)
EXTENDS Integers, Sequences, FiniteSets, TLC

VARIABLES user, current_session, current_auth_token, refresh_token,
          fingerprint, auth_lost_callback, bearer, now, ticks, tasks, last,
          stored, cookie_jar

vars == <<user, current_session, current_auth_token, refresh_token,
          fingerprint, auth_lost_callback, bearer, now, ticks, tasks, last,
          stored, cookie_jar>>

(***************************************************************************)
(* Values                                                                  *)
(***************************************************************************)
None == "None"
NoneTime == -1
NoCookie == "<no cookie>"
Keep == "<keep>"
Drop == "<drop>"
Snapshot == "<snapshot>"

\* the largest number of Tick steps of a behaviour
MaxTicks == 2

\* the largest number of requests of one get_json_from_request_strict call
\* that a behaviour follows
MaxAttempts == 4

\* the largest number of entries of a games_played list
MaxGames == 3

\* 3600 * 24 * 365 * 20: the lifetime set_refresh_token gives a token
RefreshLifetime == 3600 * 24 * 365 * 20
MaxNow == 2 * RefreshLifetime + 1

AuthValues == {"t1", "t2"}
RmtValues == {"r1"}
CookieNames == {"ScAuthTokenData", "RMT", "TS019978c2", "rssoA", "rssoB", "lang"}
Tasks == {"task1", "task2"}

\* re.search("^rsso", name)
IsRsso(name) == name \in {"rssoA", "rssoB"}

EmptyJar == [n \in CookieNames |-> NoCookie]

\* self._current_session = None
NoSession == [live |-> FALSE, max_redirects |-> 0, cookies |-> EmptyJar]

\* self._current_session.max_redirects = 300
MaxRedirects == 300

\* self.user = None, and stored_credentials = None
NoUser == [k \in {} |-> None]
NoCreds == NoUser

(***************************************************************************)
(* class Token                                                             *)
(***************************************************************************)
NewToken == [token |-> None, expires |-> NoneTime]

set_token(t, token, expiration) == [token |-> token, expires |-> expiration]

get_token(t) == t.token

get_expiration(t) == t.expires

\* self._expires <= time(): None <= float raises TypeError
expired(t, time) ==
    IF t.expires = NoneTime
    THEN [raised |-> TRUE, value |-> FALSE]
    ELSE [raised |-> FALSE, value |-> t.expires <= time]

(***************************************************************************)
(* The context of a running call                                           *)
(***************************************************************************)
Emit(c, e, v) == [c EXCEPT !.ev = Append(@, [e |-> e, v |-> v])]

Raise(c) == [c EXCEPT !.raised = TRUE]

Return(c, v) == [c EXCEPT !.ret = v]

\* pickle.dumps(obj).hex() and pickle.loads(bytes.fromhex(blob))
Pickle(obj) == [pickled |-> obj]
Unpickle(blob) == blob.pickled

(***************************************************************************)
(* CookieJar: the aiohttp cookie jar of the manager, with its listener     *)
(***************************************************************************)
\* CookieJar.__init__
NewCookieJar == [cookies |-> EmptyJar, cookies_updated_callback |-> None]

\* CookieJar.set_cookies_updated_callback
jar_set_cookies_updated_callback(jar, callback) ==
    [jar EXCEPT !.cookies_updated_callback = callback]

\* super().update_cookies(cookies, url): cookies maps some names to values
jar_super_update_cookies(jar, cookies) ==
    [jar EXCEPT !.cookies =
        [n \in CookieNames |-> IF n \in DOMAIN cookies THEN cookies[n] ELSE @[n]]]

\* CookieJar.update_cookies: the listener gets list(self)
jar_update_cookies(c, cookies) ==
    LET c1 == [c EXCEPT !.cookie_jar = jar_super_update_cookies(@, cookies)]
    IN  IF DOMAIN cookies # {} /\ c1.cookie_jar.cookies_updated_callback # None
        THEN Emit(c1, "cookies_updated", c1.cookie_jar.cookies)
        ELSE c1

\* AuthenticatedHttpClient.set_cookies_updated_callback
set_cookies_updated_callback(c, callback) ==
    [c EXCEPT !.cookie_jar = jar_set_cookies_updated_callback(@, callback)]

(***************************************************************************)
(* AuthenticatedHttpClient                                                 *)
(***************************************************************************)
\* the keys get_credentials writes
SnapshotKeys == {"session_object", "current_auth_token", "refresh_token",
                 "fingerprint"}

\* creds = self.user: the snapshot is written into the user dictionary itself;
\* with user None the item assignment raises TypeError.  Every call writes
\* the four keys again and nothing else reads them, so self.user keeps the
\* keys and the mark Snapshot for their values; the dictionary returned holds
\* the values.
get_credentials(c) ==
    IF c.user = NoUser THEN Raise(c)
    ELSE
    LET creds == [k \in DOMAIN c.user \cup SnapshotKeys |->
                    CASE k = "session_object" -> Pickle(c.current_session)
                      [] k = "current_auth_token" -> c.current_auth_token
                      [] k = "refresh_token" -> Pickle(c.refresh_token)
                      [] k = "fingerprint" -> c.fingerprint
                      [] OTHER -> c.user[k]]
    IN  Return([c EXCEPT !.user = [k \in DOMAIN creds |->
                                     IF k \in SnapshotKeys THEN Snapshot
                                     ELSE c.user[k]]],
               creds)

\* self._store_credentials(creds), called from site
store_credentials(c, site) == Emit(c, "store_credentials", site)

\* the loop of update_cookie: every cookie whose name matches ^rsso is deleted
remove_old_rsso_none(jar, name) == jar

remove_old_rsso(jar, name) ==
    IF IsRsso(name)
    THEN [n \in CookieNames |-> IF IsRsso(n) THEN NoCookie ELSE jar[n]]
    ELSE jar

\* RequestsCookieJar.set: a value of None removes the cookie
jar_set(jar, name, value) ==
    [jar EXCEPT ![name] = IF value = None THEN NoCookie ELSE value]

update_cookie(c, cookie) ==
    IF ~c.current_session.live THEN Raise(c)
    ELSE LET j1 == remove_old_rsso(c.current_session.cookies, cookie.name)
             j2 == [j1 EXCEPT ![cookie.name] = NoCookie]
         IN  [c EXCEPT !.current_session.cookies =
                          jar_set(j2, cookie.name, cookie.value)]

set_auth_lost_callback(c, callback) == [c EXCEPT !.auth_lost_callback = callback]

is_authenticated(c) == c.user # NoUser /\ c.auth_lost_callback = None

set_current_auth_token(c, token) == [c EXCEPT !.current_auth_token = token]

set_refresh_token(c, token, time) ==
    [c EXCEPT !.refresh_token = set_token(@, token, time + RefreshLifetime)]

set_refresh_token_absolute(c, token) == [c EXCEPT !.refresh_token = token]

get_refresh_token_empty(c, time) ==
    LET e == expired(c.refresh_token, time)
    IN  IF e.raised THEN Raise(c)
        ELSE LET c1 == IF e.value
                       THEN [c EXCEPT !.refresh_token = set_token(@, "", NoneTime)]
                       ELSE c
             IN  Return(c1, get_token(c1.refresh_token))

get_refresh_token(c, time) ==
    LET e == expired(c.refresh_token, time)
    IN  IF e.raised THEN Raise(c)
        ELSE LET c1 == IF e.value
                       THEN [c EXCEPT !.refresh_token = set_token(@, None, NoneTime)]
                       ELSE c
             IN  Return(c1, get_token(c1.refresh_token))

set_fingerprint(c, fp) == [c EXCEPT !.fingerprint = fp]

\* the cookies of a stored session are cleared
clear_cookies_keep(s) == s

clear_cookies(s) == [s EXCEPT !.cookies = EmptyJar]

create_session_always_restores(c, stored_credentials) ==
    IF stored_credentials = NoCreds
    THEN [c EXCEPT !.current_session =
              [live |-> TRUE, max_redirects |-> MaxRedirects, cookies |-> EmptyJar]]
    ELSE LET s == Unpickle(stored_credentials["session_object"])
         IN  IF s.live
             THEN [c EXCEPT !.current_session = clear_cookies(s)]
             ELSE Raise([c EXCEPT !.current_session = s])

create_session(c, stored_credentials) ==
    IF stored_credentials = NoCreds
    THEN [c EXCEPT !.current_session =
              [live |-> TRUE, max_redirects |-> MaxRedirects, cookies |-> EmptyJar]]
    ELSE IF ~c.current_session.live
    THEN LET s == Unpickle(stored_credentials["session_object"])
         IN  IF s.live
             THEN [c EXCEPT !.current_session = clear_cookies(s)]
             ELSE Raise([c EXCEPT !.current_session = s])
    ELSE c

\* the cookies of the session after a response: Set-Cookie of name, or none
receive_cookie(c, name, value) ==
    IF value = Keep THEN c
    ELSE [c EXCEPT !.current_session.cookies[name] =
                     IF value = Drop THEN NoCookie ELSE value]

(***************************************************************************)
(* _get_user_json, with the provider's answer srv to get-user.json:        *)
(* srv.ok (a response arrived), srv.auth (the ScAuthTokenData cookie the   *)
(* response sets, Keep or Drop) and srv.body ("doc", "nofields": JSON      *)
(* without the fields read, "badjson": resp.json() raises).                *)
(***************************************************************************)
\* if new_auth != old_auth: ... if self.user is not None: store
rotation_store_always(c, old_auth, new_auth) ==
    IF c.user # NoUser
    THEN store_credentials(get_credentials(c), "_get_user_json")
    ELSE c

rotation_store(c, old_auth, new_auth) ==
    IF new_auth # old_auth
    THEN LET c1 == Emit(c, "auth_change", new_auth)
         IN  IF c1.user # NoUser
             THEN store_credentials(get_credentials(c1), "_get_user_json")
             ELSE c1
    ELSE c

get_user_json(c, srv) ==
    IF ~c.current_session.live THEN Raise(c)
    ELSE
    LET old_auth == c.current_session.cookies["ScAuthTokenData"]
    IN  IF old_auth = NoCookie THEN Raise(c)
        ELSE IF c.current_auth_token = None THEN Raise(Emit(c, "old_auth", old_auth))
        ELSE
        LET c1 == Emit(Emit(c, "old_auth", old_auth),
                       "get-user.json", c.current_auth_token)
        IN  IF ~srv.ok THEN Raise(c1)
            ELSE
            LET c2 == receive_cookie(c1, "ScAuthTokenData", srv.auth)
                new_auth == c2.current_session.cookies["ScAuthTokenData"]
            IN  IF new_auth = NoCookie THEN Raise(c2)
                ELSE
                LET c3 == Emit([c2 EXCEPT !.current_auth_token = new_auth],
                               "new_auth", new_auth)
                    c4 == rotation_store(c3, old_auth, new_auth)
                IN  IF srv.body = "badjson" THEN Raise(c4)
                    ELSE Return(c4, srv.body)

\* resp_json["user"]["auth_token"]["access_token"]
BearerOf(body) == "bearer1"

get_bearer(c, srv) ==
    LET r == get_user_json(c, srv)
    IN  IF r.raised THEN r
        ELSE IF r.ret # "doc" THEN Raise(r)
        ELSE Return([r EXCEPT !.bearer = BearerOf(r.ret)], BearerOf(r.ret))

\* for game in played_games: if game["platform"] == "PC":
\*     return_list.append(game["id"])
RECURSIVE played_games_loop_prepend(_, _)
played_games_loop_prepend(played_games, return_list) ==
    IF played_games = <<>> THEN return_list
    ELSE played_games_loop_prepend(
             Tail(played_games),
             IF Head(played_games).platform = "PC"
             THEN <<Head(played_games).id>> \o return_list
             ELSE return_list)

RECURSIVE played_games_loop(_, _)
played_games_loop(played_games, return_list) ==
    IF played_games = <<>> THEN return_list
    ELSE played_games_loop(
             Tail(played_games),
             IF Head(played_games).platform = "PC"
             THEN Append(return_list, Head(played_games).id)
             ELSE return_list)

\* get_played_games; played_games is resp_json["user"]["games_played"] of the
\* document the provider answers with when srv.body is "doc"
get_played_games(c, srv, played_games) ==
    LET r == get_user_json(c, srv)
    IN  IF r.raised THEN r
        ELSE IF r.ret # "doc" THEN Raise(r)
        ELSE Return(r, played_games_loop(played_games, <<>>))

(***************************************************************************)
(* refresh_credentials, with the provider's answers srv.cors (ok, and rmt: *)
(* the RMT cookie the response sets, or Keep) and srv.login (ok, json:     *)
(* the body parses, auth: the ScAuthTokenData cookie the response sets).   *)
(***************************************************************************)
\* the loop over the cookies, in the jar's sorted order: the last match stays
locate_rsso(jar) ==
    IF jar["rssoB"] # NoCookie THEN "rssoB"
    ELSE IF jar["rssoA"] # NoCookie THEN "rssoA"
    ELSE None

\* del self._current_session.cookies['ScAuthTokenData'];
\* self._current_auth_token = None
delete_auth_cookie_late(c) == [c EXCEPT !.current_auth_token = None]

delete_auth_cookie_keep_token(c) ==
    [c EXCEPT !.current_session.cookies["ScAuthTokenData"] = NoCookie]

delete_auth_cookie(c) ==
    [c EXCEPT !.current_session.cookies["ScAuthTokenData"] = NoCookie,
              !.current_auth_token = None]

refresh_login_no_cache(c, srv, refresh_code) ==
    IF c.current_session.cookies["TS019978c2"] = NoCookie THEN Raise(c)
    ELSE
    LET c1 == Emit(c, "login", c.current_session.cookies["ScAuthTokenData"])
    IN  IF ~srv.login.ok THEN Raise(c1)
        ELSE
        LET c2 == receive_cookie(c1, "ScAuthTokenData", srv.login.auth)
            new_auth == c2.current_session.cookies["ScAuthTokenData"]
        IN  IF ~srv.login.json \/ new_auth = NoCookie THEN Raise(c2)
            ELSE Emit(c2, "refresh_new_auth", new_auth)

refresh_login(c, srv, refresh_code) ==
    IF c.current_session.cookies["TS019978c2"] = NoCookie THEN Raise(c)
    ELSE
    LET c1 == Emit(c, "login", c.current_session.cookies["ScAuthTokenData"])
    IN  IF ~srv.login.ok THEN Raise(c1)
        ELSE
        LET c2 == receive_cookie(c1, "ScAuthTokenData", srv.login.auth)
            new_auth == c2.current_session.cookies["ScAuthTokenData"]
        IN  IF ~srv.login.json \/ new_auth = NoCookie THEN Raise(c2)
            ELSE Emit([c2 EXCEPT !.current_auth_token = new_auth],
                      "refresh_new_auth", new_auth)

refresh_credentials(c, srv, time) ==
    IF ~c.current_session.live THEN Raise(Emit(c, "refresh_credentials", None))
    ELSE
    LET rsso_name == locate_rsso(c.current_session.cookies)
        c1 == get_refresh_token(
                  Emit(Emit(c, "refresh_credentials", None), "locate_rsso", rsso_name),
                  time)
    IN  IF c1.raised \/ c1.ret = None \/ rsso_name = None THEN Raise(c1)
        ELSE
        LET c2 == Emit(Emit(c1, "cors_check", c1.ret),
                       "cors_check_fingerprint", c1.fingerprint)
        IN  IF ~srv.cors.ok THEN Raise(c2)
            ELSE
            LET c3 == receive_cookie(c2, "RMT", srv.cors.rmt)
                rmt == c3.current_session.cookies["RMT"]
                c4 == set_refresh_token(c3, IF rmt # NoCookie THEN rmt ELSE "", time)
                c5 == Emit(c4, "set_refresh_token", get_token(c4.refresh_token))
                old_auth == c5.current_session.cookies["ScAuthTokenData"]
            IN  IF old_auth = NoCookie THEN Raise(c5)
                ELSE refresh_login(
                         Emit(delete_auth_cookie(c5), "delete_auth_cookie", old_auth),
                         srv, "code")

(***************************************************************************)
(* authenticate, with srv.cors and srv.login for refresh_credentials,      *)
(* srv.user_json for _get_bearer and srv.profile for getbasicprofile.      *)
(***************************************************************************)
\* self._debug_always_refresh = False
debug_always_refresh == FALSE

\* if self._auth_lost_callback or self._debug_always_refresh
needs_refresh_always(c) == TRUE

needs_refresh_debug_only(c) == debug_always_refresh

needs_refresh(c) == c.auth_lost_callback # None \/ debug_always_refresh

authenticate_refresh(c, srv, time) ==
    IF needs_refresh(c)
    THEN LET r == refresh_credentials(c, srv, time)
         IN  IF r.raised THEN r
             ELSE Emit([r EXCEPT !.auth_lost_callback = None], "flag_cleared", None)
    ELSE c

NewUser == [display_name |-> "name1", rockstar_id |-> "id1"]

\* self.user = {...}; self._store_credentials(self.get_credentials())
authenticate_finish_first(c) ==
    LET c1 == Emit([c EXCEPT !.user = NewUser], "set_user", "user")
    IN  IF c.user = NoUser
        THEN store_credentials(get_credentials(c1), "authenticate")
        ELSE c1

authenticate_finish(c) ==
    LET c1 == Emit([c EXCEPT !.user = NewUser], "set_user", "user")
    IN  store_credentials(get_credentials(c1), "authenticate")

authenticate_store_early(c, srv, time) ==
    LET c1 == authenticate_refresh(
                  Emit(c, "authenticate", c.auth_lost_callback), srv, time)
    IN  IF c1.raised THEN c1
        ELSE
        LET c2 == get_bearer(c1, srv.user_json)
        IN  IF c2.raised THEN c2
            ELSE
            LET c3 == Emit(authenticate_finish(c2), "getbasicprofile", c2.bearer)
            IN  IF srv.profile # "ok" THEN Raise(c3)
                ELSE Return(c3, "user")

authenticate(c, srv, time) ==
    LET c1 == authenticate_refresh(
                  Emit(c, "authenticate", c.auth_lost_callback), srv, time)
    IN  IF c1.raised THEN c1
        ELSE
        LET c2 == get_bearer(c1, srv.user_json)
        IN  IF c2.raised THEN c2
            ELSE
            LET c3 == Emit(c2, "getbasicprofile", c2.bearer)
            IN  IF srv.profile # "ok" THEN Raise(c3)
                ELSE Return(authenticate_finish(c3), "user")

(***************************************************************************)
(* do_request: the handler that runs when the first request raised, up to  *)
(* the point where the request is issued again.                            *)
(***************************************************************************)
do_request_except_no_flag(c, srv, time) == authenticate(c, srv, time)

do_request_except(c, srv, time) ==
    authenticate(Emit(set_auth_lost_callback(c, "True"), "auth_lost", "True"),
                 srv, time)

(***************************************************************************)
(* get_json_from_request_strict: its except clause, up to the call of      *)
(* itself, and the _get_bearer that each call starts with.                 *)
(***************************************************************************)
get_json_from_request_strict_except(c, srv, time) ==
    authenticate(Emit(set_auth_lost_callback(c, "True"), "auth_lost", "True"),
                 srv, time)

\* headers["Authorization"] = f"Bearer {await self._get_bearer()}"
get_json_from_request_strict_headers(c, srv) ==
    Emit(get_bearer(c, srv), "strict_headers", None)

(***************************************************************************)
(* The state machine                                                       *)
(***************************************************************************)
Self == [user |-> user, current_session |-> current_session,
         current_auth_token |-> current_auth_token,
         refresh_token |-> refresh_token, fingerprint |-> fingerprint,
         auth_lost_callback |-> auth_lost_callback, bearer |-> bearer,
         cookie_jar |-> cookie_jar,
         ev |-> <<>>, raised |-> FALSE, ret |-> None]

\* the fields of self after a call, and the record of the call
Commit(c, op, arg, ret) ==
    /\ user' = c.user
    /\ current_session' = c.current_session
    /\ current_auth_token' = c.current_auth_token
    /\ refresh_token' = c.refresh_token
    /\ fingerprint' = c.fingerprint
    /\ auth_lost_callback' = c.auth_lost_callback
    /\ bearer' = c.bearer
    /\ cookie_jar' = c.cookie_jar
    /\ last' = [op |-> op, arg |-> arg, raised |-> c.raised, ret |-> ret,
                ev |-> c.ev, had_user |-> user # NoUser]

IdleTask == [pc |-> "idle", attempts |-> 0, auths |-> 0, result |-> "none"]

\* AuthenticatedHttpClient.__init__
Init ==
    /\ user = NoUser
    /\ current_session = NoSession
    /\ current_auth_token = None
    /\ refresh_token = NewToken
    /\ fingerprint = None
    /\ auth_lost_callback = None
    /\ bearer = None
    /\ now = 0
    /\ ticks = 0
    /\ tasks = [t \in Tasks |-> IdleTask]
    /\ last = [op |-> "init", arg |-> None, raised |-> FALSE, ret |-> None,
               ev |-> <<>>, had_user |-> FALSE]
    /\ stored = NoCreds
    /\ cookie_jar = NewCookieJar

\* time() advances by d seconds
Tick(d) ==
    /\ ticks < MaxTicks
    /\ now + d <= MaxNow
    /\ now' = now + d
    /\ ticks' = ticks + 1
    /\ last' = [op |-> "time", arg |-> None, raised |-> FALSE, ret |-> None,
                ev |-> <<>>, had_user |-> user # NoUser]
    /\ UNCHANGED <<user, current_session, current_auth_token, refresh_token,
                   fingerprint, auth_lost_callback, bearer, tasks, stored,
                   cookie_jar>>

CreateSession(creds) ==
    /\ \E c \in {create_session(Self, creds)} :
           Commit(Emit(c, "create_session",
                       IF current_session.live THEN "live" ELSE "none"),
                  "create_session", IF creds = NoCreds THEN None ELSE "stored", None)
    /\ UNCHANGED <<now, ticks, tasks, stored>>

UpdateCookie(cookie) ==
    /\ \E c \in {update_cookie(Self, cookie)} :
           Commit(Emit(Emit(c, "old_rsso", locate_rsso(current_session.cookies)),
                       cookie.name, cookie.value),
                  "update_cookie", cookie.name, None)
    /\ UNCHANGED <<now, ticks, tasks, stored>>

SetAuthLostCallback(callback) ==
    /\ Commit(set_auth_lost_callback(Self, callback), "set_auth_lost_callback",
              callback, None)
    /\ UNCHANGED <<now, ticks, tasks, stored>>

SetCurrentAuthToken(token) ==
    /\ Commit(set_current_auth_token(Self, token), "set_current_auth_token",
              token, None)
    /\ UNCHANGED <<now, ticks, tasks, stored>>

SetRefreshToken(token) ==
    /\ Commit(set_refresh_token(Self, token, now), "set_refresh_token", token, None)
    /\ UNCHANGED <<now, ticks, tasks, stored>>

GetRefreshToken ==
    /\ \E c \in {get_refresh_token(Self, now)} :
           Commit(c, "get_refresh_token", None, c.ret)
    /\ UNCHANGED <<now, ticks, tasks, stored>>

SetFingerprint(fp) ==
    /\ Commit(set_fingerprint(Self, fp), "set_fingerprint", fp, None)
    /\ UNCHANGED <<now, ticks, tasks, stored>>

GetUserJson(srv) ==
    /\ \E c \in {get_user_json(Self, srv)} :
           Commit(c, "_get_user_json", None, IF c.raised THEN None ELSE c.ret)
    /\ UNCHANGED <<now, ticks, tasks, stored>>

GetBearer(srv) ==
    /\ \E c \in {get_bearer(Self, srv)} :
           Commit(c, "_get_bearer", None, IF c.raised THEN None ELSE c.ret)
    /\ UNCHANGED <<now, ticks, tasks, stored>>

RefreshCredentials(srv) ==
    /\ \E c \in {refresh_credentials(Self, srv, now)} :
           Commit(c, "refresh_credentials", None, None)
    /\ UNCHANGED <<now, ticks, tasks, stored>>

Authenticate(srv) ==
    /\ \E c \in {authenticate(Self, srv, now)} :
           Commit(c, "authenticate", None, None)
    /\ UNCHANGED <<now, ticks, tasks, stored>>

\* do_request is called: the request is issued and the task waits for it
DoRequestCall(t) ==
    /\ tasks[t].pc \in {"idle", "done"}
    /\ tasks' = [tasks EXCEPT ![t] = [pc |-> "first", attempts |-> 1,
                                      auths |-> 0, result |-> "none"]]
    /\ Commit(Self, "do_request", t, None)
    /\ UNCHANGED <<now, ticks, stored>>

\* the first request returns
DoRequestFirstOk(t) ==
    /\ tasks[t].pc = "first"
    /\ tasks' = [tasks EXCEPT ![t].pc = "done", ![t].result = "first_ok"]
    /\ Commit(Self, "do_request", t, "first_ok")
    /\ UNCHANGED <<now, ticks, stored>>

NumberOf(ev, e) == Cardinality({i \in 1..Len(ev) : ev[i].e = e})

\* the first request raises: the handler runs, and the request is issued again
DoRequestFirstFails(t, srv) ==
    /\ tasks[t].pc = "first"
    /\ \E c \in {do_request_except(Self, srv, now)} :
           /\ tasks' = [tasks EXCEPT ![t] =
                  [pc |-> IF c.raised THEN "done" ELSE "retry",
                   attempts |-> IF c.raised THEN @.attempts ELSE @.attempts + 1,
                   auths |-> @.auths + NumberOf(c.ev, "authenticate"),
                   result |-> IF c.raised THEN "authenticate_error" ELSE "none"]]
           /\ Commit(c, "do_request", t,
                     IF c.raised THEN "authenticate_error" ELSE None)
    /\ UNCHANGED <<now, ticks, stored>>

\* the second request returns or raises
DoRequestRetryDone(t, ok) ==
    /\ tasks[t].pc = "retry"
    /\ tasks' = [tasks EXCEPT ![t].pc = "done",
                              ![t].result = IF ok THEN "retry_ok" ELSE "retry_error"]
    /\ Commit([Self EXCEPT !.raised = ~ok], "do_request", t,
              IF ok THEN "retry_ok" ELSE "retry_error")
    /\ UNCHANGED <<now, ticks, stored>>

(***************************************************************************)
(* The provider's answers.  An answer that is never read (the login answer *)
(* when the cors check fails) is fixed, so that every answer listed is one *)
(* run of the provider.                                                    *)
(***************************************************************************)
UserJsonFails ==
    {[ok |-> FALSE, auth |-> Keep, body |-> "doc"],
     [ok |-> TRUE, auth |-> Drop, body |-> "doc"],
     [ok |-> TRUE, auth |-> Keep, body |-> "badjson"],
     [ok |-> TRUE, auth |-> "t2", body |-> "badjson"]}

UserJsonNoFields == {[ok |-> TRUE, auth |-> Keep, body |-> "nofields"]}

UserJsonDocs == [ok : {TRUE}, auth : {Keep} \cup AuthValues, body : {"doc"}]

UserJsonAnswers == UserJsonFails \cup UserJsonNoFields \cup UserJsonDocs

NoUserJson == [ok |-> FALSE, auth |-> Keep, body |-> "doc"]

CorsFails == {[ok |-> FALSE, rmt |-> Keep]}

CorsOk == [ok : {TRUE}, rmt : {Keep} \cup RmtValues]

NoLogin == [ok |-> FALSE, json |-> TRUE, auth |-> Keep]

LoginFails ==
    {NoLogin,
     [ok |-> TRUE, json |-> FALSE, auth |-> "t1"],
     [ok |-> TRUE, json |-> TRUE, auth |-> Keep]}

LoginOk == [ok : {TRUE}, json : {TRUE}, auth : AuthValues]

RefreshFails ==
    [cors : CorsFails, login : {NoLogin}] \cup [cors : CorsOk, login : LoginFails]

RefreshOk == [cors : CorsOk, login : LoginOk]

RefreshAnswers == RefreshFails \cup RefreshOk

WithRefresh(r, u, p) ==
    [cors |-> r.cors, login |-> r.login, user_json |-> u, profile |-> p]

AuthenticateAnswers ==
    {WithRefresh(r, NoUserJson, "error") : r \in RefreshFails} \cup
    {WithRefresh(r, u, "error") :
        r \in RefreshOk, u \in UserJsonFails \cup UserJsonNoFields} \cup
    {WithRefresh(r, u, p) :
        r \in RefreshOk, u \in UserJsonDocs, p \in {"ok", "error"}}

Cookies ==
    [name : {"ScAuthTokenData"}, value : AuthValues] \cup
    [name : {"RMT"}, value : RmtValues] \cup
    [name : {"TS019978c2", "rssoA"}, value : {"v1"}]

\* the operations of one manager, called one after the other
Next ==
    \/ CreateSession(NoCreds)
    \/ \E cookie \in Cookies : UpdateCookie(cookie)
    \/ \E token \in AuthValues : SetCurrentAuthToken(token)
    \/ \E token \in RmtValues : SetRefreshToken(token)
    \/ SetAuthLostCallback("True")
    \/ \E srv \in UserJsonAnswers : GetUserJson(srv)
    \/ \E srv \in UserJsonAnswers : GetBearer(srv)
    \/ \E srv \in RefreshAnswers : RefreshCredentials(srv)
    \/ \E srv \in AuthenticateAnswers : Authenticate(srv)

Spec == Init /\ [][Next]_vars

(***************************************************************************)
(* The refresh token and the clock                                         *)
(***************************************************************************)
\* token.expired, read by the host
ReadExpired ==
    /\ LET e == expired(refresh_token, now)
       IN  Commit([Self EXCEPT !.raised = e.raised], "expired", None,
                  IF e.raised THEN None ELSE IF e.value THEN "True" ELSE "False")
    /\ UNCHANGED <<now, ticks, tasks, stored>>

SetRefreshTokenAbsolute(token) ==
    /\ Commit(set_refresh_token_absolute(Self, token), "set_refresh_token_absolute",
              token.token, None)
    /\ UNCHANGED <<now, ticks, tasks, stored>>

TokenBoxes ==
    {set_token(NewToken, token, expiration) :
        token \in {"r1"}, expiration \in {0, 1, RefreshLifetime}} \cup {NewToken}

NextToken ==
    \/ \E d \in {1, RefreshLifetime - 1} : Tick(d)
    \/ \E token \in RmtValues \cup {""} : SetRefreshToken(token)
    \/ \E token \in TokenBoxes : SetRefreshTokenAbsolute(token)
    \/ GetRefreshToken
    \/ ReadExpired

SpecToken == Init /\ [][NextToken]_vars

(***************************************************************************)
(* The cookies of the session under update_cookie                          *)
(***************************************************************************)
RotatingCookies ==
    [name : {"rssoA", "rssoB", "lang", "ScAuthTokenData"}, value : {"v1", "v2"}] \cup
    [name : {"rssoA", "lang"}, value : {None}]

NextCookies ==
    \/ CreateSession(NoCreds)
    \/ \E cookie \in RotatingCookies : UpdateCookie(cookie)

SpecCookies == Init /\ [][NextCookies]_vars

(***************************************************************************)
(* Credentials kept by the host and given to a new manager                 *)
(***************************************************************************)
\* the host keeps what get_credentials returns
GetCredentials ==
    /\ \E c \in {get_credentials(Self)} :
           /\ Commit(c, "get_credentials", None, None)
           /\ stored' = IF c.raised THEN stored ELSE c.ret
    /\ UNCHANGED <<now, ticks, tasks>>

\* the plugin starts again: AuthenticatedHttpClient.__init__
Restart ==
    /\ last.op # "init"
    /\ user' = NoUser
    /\ current_session' = NoSession
    /\ current_auth_token' = None
    /\ refresh_token' = NewToken
    /\ fingerprint' = None
    /\ auth_lost_callback' = None
    /\ bearer' = None
    /\ tasks' = [t \in Tasks |-> IdleTask]
    /\ last' = [op |-> "init", arg |-> None, raised |-> FALSE, ret |-> None,
                ev |-> <<>>, had_user |-> FALSE]
    /\ cookie_jar' = NewCookieJar
    /\ UNCHANGED <<now, ticks, stored>>

PlainAnswers ==
    {WithRefresh(r, u, "ok") :
        r \in [cors : {[ok |-> TRUE, rmt |-> Keep]},
               login : {[ok |-> TRUE, json |-> TRUE, auth |-> "t2"]}],
        u \in {[ok |-> TRUE, auth |-> Keep, body |-> "doc"]}}

LoginCookies ==
    [name : {"ScAuthTokenData"}, value : AuthValues] \cup
    [name : {"TS019978c2"}, value : {"v1"}]

NextRestore ==
    \/ CreateSession(NoCreds)
    \/ stored # NoCreds /\ CreateSession(stored)
    \/ \E cookie \in LoginCookies : UpdateCookie(cookie)
    \/ \E token \in AuthValues : SetCurrentAuthToken(token)
    \/ SetFingerprint("fp1")
    \/ \E srv \in PlainAnswers : Authenticate(srv)
    \/ GetCredentials
    \/ Restart

SpecRestore == Init /\ [][NextRestore]_vars

(***************************************************************************)
(* do_request, called by tasks of the cooperative scheduler                *)
(***************************************************************************)
SetupCookies ==
    [name : {"ScAuthTokenData"}, value : {"t1"}] \cup
    [name : {"TS019978c2", "rssoA"}, value : {"v1"}]

RequestAnswers ==
    {WithRefresh(r, NoUserJson, "error") : r \in RefreshFails} \cup
    {WithRefresh(r, u, p) :
        r \in [cors : {[ok |-> TRUE, rmt |-> Keep]},
               login : {[ok |-> TRUE, json |-> TRUE, auth |-> "t2"]}],
        u \in {NoUserJson, [ok |-> TRUE, auth |-> Keep, body |-> "doc"]},
        p \in {"ok", "error"}}

NextRequest ==
    \/ CreateSession(NoCreds)
    \/ \E cookie \in SetupCookies : UpdateCookie(cookie)
    \/ SetCurrentAuthToken("t1")
    \/ SetRefreshToken("r1")
    \/ \E t \in Tasks : DoRequestCall(t)
    \/ \E t \in Tasks : DoRequestFirstOk(t)
    \/ \E t \in Tasks, srv \in RequestAnswers : DoRequestFirstFails(t, srv)
    \/ \E t \in Tasks, ok \in BOOLEAN : DoRequestRetryDone(t, ok)

SpecRequest == Init /\ [][NextRequest]_vars

(***************************************************************************)
(* The cookie listener: the host registers it, the aiohttp session of the  *)
(* base class calls CookieJar.update_cookies with each response's cookies, *)
(* and the manager's own cookie operations work on _current_session.       *)
(***************************************************************************)
SetCookiesUpdatedCallback(callback) ==
    /\ \E c \in {set_cookies_updated_callback(Self, callback)} :
           Commit(c, "set_cookies_updated_callback", callback, None)
    /\ UNCHANGED <<now, ticks, tasks, stored>>

UpdateCookies(cookies) ==
    /\ \E c \in {jar_update_cookies(Self, cookies)} :
           Commit(c, "update_cookies", None, None)
    /\ UNCHANGED <<now, ticks, tasks, stored>>

\* the cookies of a response: none, or some of two names
ResponseCookies ==
    {<<>>} \cup
    UNION {[names -> {"v1", "v2"}] : names \in (SUBSET {"lang", "RMT"}) \ {{}}}

ListenerAnswers ==
    {WithRefresh(r, NoUserJson, "error") :
        r \in {[cors |-> [ok |-> TRUE, rmt |-> Keep],
                login |-> [ok |-> TRUE, json |-> TRUE, auth |-> "t2"]],
               [cors |-> [ok |-> TRUE, rmt |-> Keep], login |-> NoLogin]}}

NextListener ==
    \/ SetCookiesUpdatedCallback("listener")
    \/ \E cookies \in ResponseCookies : UpdateCookies(cookies)
    \/ CreateSession(NoCreds)
    \/ \E cookie \in SetupCookies \cup [name : {"rssoB"}, value : {"v1"}] :
           UpdateCookie(cookie)
    \/ SetRefreshToken("r1")
    \/ \E srv \in ListenerAnswers : RefreshCredentials(srv)

SpecListener == Init /\ [][NextListener]_vars

(***************************************************************************)
(* get_played_games on the documents of the provider                       *)
(***************************************************************************)
GetPlayedGames(srv, played_games) ==
    /\ \E c \in {get_played_games(Self, srv, played_games)} :
           Commit(c, "get_played_games", played_games,
                  IF c.raised THEN None ELSE c.ret)
    /\ UNCHANGED <<now, ticks, tasks, stored>>

Games == [id : {"A", "B"}, platform : {"PC", "PS4"}]

GamesAnswers ==
    {NoUserJson,
     [ok |-> TRUE, auth |-> Keep, body |-> "nofields"],
     [ok |-> TRUE, auth |-> Keep, body |-> "doc"]}

GamesLists == UNION {[1..n -> Games] : n \in 0..MaxGames}

NextGames ==
    \/ CreateSession(NoCreds)
    \/ \E cookie \in [name : {"ScAuthTokenData"}, value : {"t1"}] : UpdateCookie(cookie)
    \/ SetCurrentAuthToken("t1")
    \/ \E srv \in GamesAnswers, played_games \in GamesLists :
           GetPlayedGames(srv, played_games)

SpecGames == Init /\ [][NextGames]_vars

(***************************************************************************)
(* The manager's operations of Spec together with get_played_games         *)
(***************************************************************************)
NextAll ==
    \/ Next
    \/ \E srv \in UserJsonAnswers,
          played_games \in {<<>>, <<[id |-> "A", platform |-> "PC"]>>} :
           GetPlayedGames(srv, played_games)

SpecAll == Init /\ [][NextAll]_vars

(***************************************************************************)
(* get_json_from_request_strict(url), with the default headers.  Nothing   *)
(* in it suspends, so one call runs at a time; the steps are the requests. *)
(***************************************************************************)
\* the call starts: the headers are built and the request is issued
StrictCall(t, u) ==
    /\ \A k \in Tasks : tasks[k].pc \in {"idle", "done"}
    /\ \E c \in {get_json_from_request_strict_headers(Self, u)} :
           /\ tasks' = [tasks EXCEPT ![t] =
                  [pc |-> IF c.raised THEN "done" ELSE "strict_request",
                   attempts |-> IF c.raised THEN 0 ELSE 1,
                   auths |-> 0,
                   result |-> IF c.raised THEN "bearer_error" ELSE "none"]]
           /\ Commit(c, "get_json_from_request_strict", t,
                     IF c.raised THEN "bearer_error" ELSE None)
    /\ UNCHANGED <<now, ticks, stored>>

\* the request returns and resp.json() parses
StrictRequestOk(t) ==
    /\ tasks[t].pc = "strict_request"
    /\ tasks' = [tasks EXCEPT ![t].pc = "done", ![t].result = "ok"]
    /\ Commit(Self, "get_json_from_request_strict", t, "ok")
    /\ UNCHANGED <<now, ticks, stored>>

\* the request raises: the except clause runs and calls the method again,
\* which builds the headers and issues the request
StrictRequestFails(t, srv, u) ==
    /\ tasks[t].pc = "strict_request"
    /\ tasks[t].attempts < MaxAttempts
    /\ \E c1 \in {get_json_from_request_strict_except(Self, srv, now)} :
       \E c \in {IF c1.raised THEN c1
                 ELSE get_json_from_request_strict_headers(c1, u)} :
           /\ tasks' = [tasks EXCEPT ![t] =
                  [pc |-> IF c.raised THEN "done" ELSE "strict_request",
                   attempts |-> IF c.raised THEN @.attempts ELSE @.attempts + 1,
                   auths |-> @.auths + 1,
                   result |-> IF c1.raised THEN "authenticate_error"
                              ELSE IF c.raised THEN "bearer_error" ELSE "none"]]
           /\ Commit(c, "get_json_from_request_strict", t,
                     IF c1.raised THEN "authenticate_error"
                     ELSE IF c.raised THEN "bearer_error" ELSE None)
    /\ UNCHANGED <<now, ticks, stored>>

StrictDocs == {NoUserJson, [ok |-> TRUE, auth |-> Keep, body |-> "doc"]}

StrictAnswers ==
    {WithRefresh(r, u, p) :
        r \in [cors : {[ok |-> TRUE, rmt |-> Keep]},
               login : {NoLogin, [ok |-> TRUE, json |-> TRUE, auth |-> "t2"]}],
        u \in {[ok |-> TRUE, auth |-> Keep, body |-> "doc"]},
        p \in {"ok", "error"}}

NextStrict ==
    \/ CreateSession(NoCreds)
    \/ \E cookie \in SetupCookies : UpdateCookie(cookie)
    \/ SetCurrentAuthToken("t1")
    \/ SetRefreshToken("r1")
    \/ \E t \in Tasks, u \in StrictDocs : StrictCall(t, u)
    \/ \E t \in Tasks : StrictRequestOk(t)
    \/ \E t \in Tasks, srv \in StrictAnswers, u \in StrictDocs :
           StrictRequestFails(t, srv, u)

SpecStrict == Init /\ [][NextStrict]_vars

(***************************************************************************)
(* Re-authentication with and without an rsso cookie and a refresh token   *)
(* that is unset, current or expired                                       *)
(***************************************************************************)
NextNoCredentials ==
    \/ Tick(RefreshLifetime)
    \/ CreateSession(NoCreds)
    \/ \E cookie \in SetupCookies : UpdateCookie(cookie)
    \/ SetCurrentAuthToken("t1")
    \/ SetRefreshToken("r1")
    \/ \E token \in TokenBoxes : SetRefreshTokenAbsolute(token)
    \/ SetAuthLostCallback("True")
    \/ \E srv \in ListenerAnswers : RefreshCredentials(srv)
    \/ \E srv \in RequestAnswers : Authenticate(srv)

SpecNoCredentials == Init /\ [][NextNoCredentials]_vars

(***************************************************************************)
(* Claims                                                                  *)
(***************************************************************************)
Cookie(name) == current_session.cookies[name]

HasEvent(e) == \E i \in 1..Len(last.ev) : last.ev[i].e = e

\* C7: set_refresh_token at time t stores expires = t + 20 years; a read before
\* that instant returns the stored value and leaves the box alone; a read at or
\* after it returns the empty token and clears value and expiry; no read fails,
\* also not a later one nor one of a box that was never set.
C7_RefreshTokenReads ==
    [][/\ last'.op = "set_refresh_token" =>
              refresh_token' = [token |-> last'.arg, expires |-> now + RefreshLifetime]
       /\ last'.op = "get_refresh_token" =>
              /\ ~last'.raised
              /\ IF refresh_token.expires # NoneTime /\ now < refresh_token.expires
                 THEN last'.ret = refresh_token.token /\ refresh_token' = refresh_token
                 ELSE last'.ret = None /\ refresh_token' = NewToken]_vars

\* C8: expired is true iff the expiry is set and now >= expiry; with no expiry
\* it is false, and reading it does not raise.
C8_ExpiredIsTotal ==
    last.op = "expired" =>
        /\ ~last.raised
        /\ last.ret = "True" <=>
               (refresh_token.expires # NoneTime /\ now >= refresh_token.expires)

\* C9: after any sequence of update_cookie calls the session holds at most one
\* cookie whose name starts with rsso, the one supplied last: update_cookie of
\* an rsso cookie removes every other rsso cookie and sets the one given, and
\* update_cookie of another cookie changes that cookie only.
C9_OneRssoCookie ==
    /\ [](Cardinality({n \in CookieNames : IsRsso(n) /\ Cookie(n) # NoCookie}) <= 1)
    /\ [][(last'.op = "update_cookie" /\ ~last'.raised) =>
            LET name == last'.ev[2].e
                value == last'.ev[2].v
            IN  /\ current_session'.cookies[name] =
                       IF value = None THEN NoCookie ELSE value
                /\ \A n \in CookieNames \ {name} :
                       current_session'.cookies[n] =
                           IF IsRsso(name) /\ IsRsso(n) THEN NoCookie
                           ELSE current_session.cookies[n]]_vars

\* an rsso cookie was given while one of another name was held
C9_Witness ==
    /\ last.op = "update_cookie"
    /\ last.ev[1] = [e |-> "old_rsso", v |-> "rssoA"]
    /\ last.ev[2] = [e |-> "rssoB", v |-> "v2"]
    /\ Cookie("rssoA") = NoCookie
    /\ Cookie("rssoB") = "v2"
    /\ Cookie("lang") = "v1"

\* create_session(stored credentials) has just run on a manager that had no
\* session, with the credentials another manager's get_credentials returned
Restored ==
    /\ last.op = "create_session"
    /\ last.arg = "stored"
    /\ last.ev[1] = [e |-> "create_session", v |-> "none"]
    /\ ~last.raised

\* C10 as claimed: create_session(A.get_credentials()) on a fresh manager B
\* gives B a session equal to A's at snapshot time: same redirect cap, same
\* cookies, ScAuthTokenData included.
C10_RoundTrip ==
    Restored => current_session = Unpickle(stored["session_object"])

\* C10: create_session(A.get_credentials()) on a fresh manager B gives B a
\* live session with the redirect cap of A's session at snapshot time and no
\* cookie at all, so that every _get_user_json of B fails until the cookies
\* and the token are given again.
C10_RestoredWithoutCookies ==
    Restored =>
        /\ current_session.live
        /\ current_session.max_redirects =
               Unpickle(stored["session_object"]).max_redirects
        /\ current_session.cookies = EmptyJar
        /\ \A srv \in UserJsonAnswers : get_user_json(Self, srv).raised

\* the session A pickled held the ScAuthTokenData cookie A sent its requests with
C10_Witness ==
    /\ Restored
    /\ Unpickle(stored["session_object"]).cookies["ScAuthTokenData"] \in AuthValues
    /\ stored["current_auth_token"] =
           Unpickle(stored["session_object"]).cookies["ScAuthTokenData"]
    /\ Unpickle(stored["session_object"]).max_redirects = MaxRedirects

\* the call recorded in l ran authenticate; authenticate returned in it
AuthenticateRan(l) == \E i \in 1..Len(l.ev) : l.ev[i].e = "authenticate"

AuthenticateOk(l) == \E i \in 1..Len(l.ev) : l.ev[i].e = "set_user"

\* C2: is_authenticated() is user != None and no auth-lost flag; it is false
\* after construction, becomes true only in a call in which authenticate()
\* returns, and when it is false an authenticate() that raises (in the refresh,
\* in the bearer fetch or in the basic-profile fetch) leaves it false and leaves
\* user as it was.
C2_AuthenticatedOnlyBySuccess ==
    /\ ~is_authenticated(Self)
    /\ [][/\ (~is_authenticated(Self) /\
              is_authenticated([user |-> user',
                                auth_lost_callback |-> auth_lost_callback']))
                 => AuthenticateOk(last')
          /\ (AuthenticateRan(last') /\ last'.raised /\ ~is_authenticated(Self))
                 => /\ ~is_authenticated([user |-> user',
                                          auth_lost_callback |-> auth_lost_callback'])
                    /\ user' = user]_vars

\* C3 as stated: a call stores credentials once when it is the first
\* authenticate() that returns (no user before it) and once per
\* _get_user_json that sees a changed ScAuthTokenData value while a user is
\* set, and at no other point.
C3_StoreOnFirstAuthAndRotation ==
    [][NumberOf(last'.ev, "store_credentials")
         = (IF AuthenticateOk(last') /\ ~last'.had_user THEN 1 ELSE 0)
           + (IF last'.had_user THEN NumberOf(last'.ev, "auth_change") ELSE 0)]_vars

\* C3: a call stores credentials once when authenticate() returns in it (the
\* first time or any later time) and once per _get_user_json that sees a
\* changed ScAuthTokenData value while a user is set, and at no other point;
\* each _get_user_json sees at most one change and nothing is stored for a
\* change seen while no user is set.
C3_StoreOnEveryAuthAndRotation ==
    [][/\ NumberOf(last'.ev, "store_credentials")
            = (IF AuthenticateOk(last') THEN 1 ELSE 0)
              + (IF last'.had_user THEN NumberOf(last'.ev, "auth_change") ELSE 0)
       /\ NumberOf(last'.ev, "auth_change") <= NumberOf(last'.ev, "get-user.json")
       /\ \A i \in 1..Len(last'.ev) :
            last'.ev[i].e = "store_credentials"
              => /\ i > 1
                 /\ \/ last'.ev[i].v = "authenticate" /\ last'.ev[i-1].e = "set_user"
                    \/ /\ last'.ev[i].v = "_get_user_json"
                       /\ last'.ev[i-1].e = "auth_change"
                       /\ last'.had_user]_vars

\* a later authenticate() returns without a token rotation and stores
C3_Witness ==
    /\ last.op = "authenticate"
    /\ AuthenticateOk(last)
    /\ last.had_user
    /\ NumberOf(last.ev, "auth_change") = 0
    /\ NumberOf(last.ev, "store_credentials") = 1

\* the steps of refresh_credentials, in the order of the protocol
RefreshSteps ==
    <<"refresh_credentials", "locate_rsso", "cors_check", "cors_check_fingerprint",
      "set_refresh_token", "delete_auth_cookie", "login", "refresh_new_auth">>

Position(e) == CHOOSE k \in 1..Len(RefreshSteps) : RefreshSteps[k] = e

\* C4: a run of refresh_credentials performs its steps in the order: locate the
\* rsso cookie, POST fingerprint and refresh token to cors-check, set the refresh
\* token from the RMT cookie or to "", delete the ScAuthTokenData cookie, POST to
\* login, cache the new ScAuthTokenData value. The session holds no
\* ScAuthTokenData cookie when the login POST is issued; a run that stops early
\* raises and nothing runs after the step that failed.
C4_RefreshProtocolOrder ==
    [][LET ev == last'.ev
           Steps == {RefreshSteps[k] : k \in 1..Len(RefreshSteps)}
       IN  /\ \A e \in Steps : NumberOf(ev, e) <= 1
           /\ \A i \in 1..Len(ev) :
                (ev[i].e \in Steps /\ Position(ev[i].e) > 1)
                  => /\ i > 1
                     /\ ev[i-1].e = RefreshSteps[Position(ev[i].e) - 1]
           /\ \A i \in 1..Len(ev) :
                /\ ev[i].e = "locate_rsso"
                     => ev[i].v = locate_rsso(current_session.cookies)
                /\ ev[i].e = "cors_check"
                     => ev[i].v = get_token(refresh_token) /\ ev[i].v # None
                /\ ev[i].e = "cors_check_fingerprint" => ev[i].v = fingerprint
                /\ ev[i].e = "set_refresh_token"
                     => /\ ev[i].v = get_token(refresh_token')
                        /\ ev[i].v = (IF current_session'.cookies["RMT"] # NoCookie
                                      THEN current_session'.cookies["RMT"] ELSE "")
                /\ ev[i].e = "delete_auth_cookie"
                     => ev[i].v = current_session.cookies["ScAuthTokenData"]
                /\ ev[i].e = "login" => ev[i].v = NoCookie
                /\ ev[i].e = "refresh_new_auth"
                     => /\ ev[i].v # NoCookie
                        /\ last'.op = "refresh_credentials"
                             => /\ current_auth_token' = ev[i].v
                                /\ current_session'.cookies["ScAuthTokenData"] = ev[i].v
           /\ (NumberOf(ev, "refresh_credentials") = 1
                 /\ NumberOf(ev, "refresh_new_auth") = 0)
                => /\ last'.raised
                   /\ ev[Len(ev)].e \in Steps
           /\ (last'.op = "refresh_credentials" /\ ~last'.raised)
                => NumberOf(ev, "refresh_new_auth") = 1]_vars

\* refresh_credentials ran to its end with an ScAuthTokenData cookie to delete
C4_Witness ==
    /\ last.op = "refresh_credentials"
    /\ ~last.raised
    /\ \E i \in 1..Len(last.ev) :
         last.ev[i].e = "delete_auth_cookie" /\ last.ev[i].v \in AuthValues
    /\ HasEvent("login")
    /\ HasEvent("refresh_new_auth")

\* C5: authenticate() runs refresh_credentials iff the auth-lost flag (or the
\* debug flag) is set when it is called, at most once and before the
\* get-user.json request of the bearer fetch; with the flag unset it issues no
\* cors-check and no login request. The flag is cleared only after
\* refresh_credentials has returned, and stays set when it raises.
C5_RefreshIffAuthLost ==
    [][LET ev == last'.ev
           Steps == {RefreshSteps[k] : k \in 1..Len(RefreshSteps)}
       IN  /\ AuthenticateRan(last') =>
                LET called == CHOOSE i \in 1..Len(ev) : ev[i].e = "authenticate"
                    flag == ev[called].v
                IN  /\ NumberOf(ev, "authenticate") = 1
                    /\ last'.op = "authenticate" => flag = auth_lost_callback
                    /\ NumberOf(ev, "refresh_credentials") <= 1
                    /\ (flag # None \/ debug_always_refresh)
                         <=> NumberOf(ev, "refresh_credentials") = 1
                    /\ (flag = None /\ ~debug_always_refresh)
                         => \A i \in 1..Len(ev) : ev[i].e \notin Steps
                    /\ \A i, j \in 1..Len(ev) :
                         (ev[i].e \in Steps /\ ev[j].e = "get-user.json") => i < j
                    /\ \A i \in 1..Len(ev) : ev[i].e \in Steps => i > called
                    /\ NumberOf(ev, "flag_cleared") = NumberOf(ev, "refresh_new_auth")
                    /\ \A i \in 1..Len(ev) :
                         ev[i].e = "flag_cleared" => ev[i-1].e = "refresh_new_auth"
                    /\ (flag # None /\ NumberOf(ev, "refresh_new_auth") = 0)
                         => /\ last'.raised
                            /\ auth_lost_callback' = flag
                    /\ NumberOf(ev, "refresh_new_auth") = 1
                         => auth_lost_callback' = None
           /\ (auth_lost_callback # None /\ auth_lost_callback' = None)
                => /\ AuthenticateRan(last')
                   /\ NumberOf(ev, "refresh_new_auth") = 1]_vars

\* authenticate() was called with the flag set, refreshed and cleared the flag
C5_Witness ==
    /\ last.op = "authenticate"
    /\ last.ev[1] = [e |-> "authenticate", v |-> "True"]
    /\ HasEvent("refresh_new_auth")
    /\ HasEvent("flag_cleared")
    /\ auth_lost_callback = None

\* the value of the one event named e of the call recorded in last'
ValueOf(ev, e) == ev[CHOOSE i \in 1..Len(ev) : ev[i].e = e].v

\* a _get_user_json call (directly or from _get_bearer) has just returned
UserJsonReturned(l) ==
    /\ l.op \in {"_get_user_json", "_get_bearer"}
    /\ ~l.raised
    /\ \A e \in {"old_auth", "get-user.json", "new_auth"} : NumberOf(l.ev, e) = 1

\* C6 as stated: a _get_user_json that returns sent the session's
\* ScAuthTokenData cookie value in its cookie header, caches the cookie value
\* found after the response, and stores credentials iff that value differs from
\* the one read before the request and a user is set.
C6_UserJsonSendsCookie ==
    [][(last'.op \in {"_get_user_json", "_get_bearer"} /\ ~last'.raised)
         => /\ UserJsonReturned(last')
            /\ ValueOf(last'.ev, "old_auth") = Cookie("ScAuthTokenData")
            /\ ValueOf(last'.ev, "get-user.json") = Cookie("ScAuthTokenData")
            /\ ValueOf(last'.ev, "new_auth") = current_session'.cookies["ScAuthTokenData"]
            /\ current_auth_token' = ValueOf(last'.ev, "new_auth")
            /\ NumberOf(last'.ev, "store_credentials") =
                 (IF ValueOf(last'.ev, "new_auth") # ValueOf(last'.ev, "old_auth")
                     /\ user # NoUser
                  THEN 1 ELSE 0)]_vars

\* C6: a _get_user_json that returns sent the cached auth token
\* (_current_auth_token) in its cookie header, whatever the session's
\* ScAuthTokenData cookie was; it caches the cookie value found after the
\* response, and stores credentials iff that value differs from the cookie
\* value read before the request and a user is set.
C6_UserJsonSendsCachedToken ==
    [][(last'.op \in {"_get_user_json", "_get_bearer"} /\ ~last'.raised)
         => /\ UserJsonReturned(last')
            /\ ValueOf(last'.ev, "old_auth") = Cookie("ScAuthTokenData")
            /\ ValueOf(last'.ev, "get-user.json") = current_auth_token
            /\ current_auth_token # None
            /\ ValueOf(last'.ev, "new_auth") = current_session'.cookies["ScAuthTokenData"]
            /\ current_auth_token' = ValueOf(last'.ev, "new_auth")
            /\ NumberOf(last'.ev, "store_credentials") =
                 (IF ValueOf(last'.ev, "new_auth") # ValueOf(last'.ev, "old_auth")
                     /\ user # NoUser
                  THEN 1 ELSE 0)]_vars

\* _get_user_json returned after sending a cached token that was not the
\* cookie's value, saw the cookie change and stored credentials
C6_Witness ==
    /\ UserJsonReturned(last)
    /\ last.op = "_get_user_json"
    /\ ValueOf(last.ev, "get-user.json") # ValueOf(last.ev, "old_auth")
    /\ ValueOf(last.ev, "new_auth") # ValueOf(last.ev, "old_auth")
    /\ NumberOf(last.ev, "store_credentials") = 1
    /\ current_auth_token = ValueOf(last.ev, "new_auth")

\* C1: a do_request whose first request returns gives that result and runs no
\* authenticate(); when the first request raises, the auth-lost flag is set and
\* authenticate() is called once, and the request is issued once more iff it
\* returns. A call issues the request at most twice; the caller gets the second
\* request's result or error when there is one, and authenticate()'s error,
\* with no second request, when authenticate() raises.
C1_DoRequestRetriesOnce ==
    /\ \A t \in Tasks :
         LET k == tasks[t]
         IN  /\ k.attempts <= 2
             /\ k.auths <= 1
             /\ k.pc = "first" => k.attempts = 1 /\ k.auths = 0 /\ k.result = "none"
             /\ k.pc = "retry" => k.attempts = 2 /\ k.auths = 1 /\ k.result = "none"
             /\ k.pc = "done" => k.result # "none"
             /\ k.result = "first_ok" => k.attempts = 1 /\ k.auths = 0
             /\ k.result = "authenticate_error" => k.attempts = 1 /\ k.auths = 1
             /\ k.result \in {"retry_ok", "retry_error"}
                  => k.attempts = 2 /\ k.auths = 1
    /\ (last.op = "do_request" /\ last.ev # <<>>)
         => /\ last.ev[1] = [e |-> "auth_lost", v |-> "True"]
            /\ last.ev[2] = [e |-> "authenticate", v |-> "True"]
            /\ NumberOf(last.ev, "authenticate") = 1
            /\ last.raised <=> ~AuthenticateOk(last)
            /\ last.raised <=> tasks[last.arg].result = "authenticate_error"
            /\ ~last.raised <=> tasks[last.arg].pc = "retry"
            /\ ~last.raised => auth_lost_callback = None
    /\ (last.op = "do_request" /\ last.ret # None)
         => /\ tasks[last.arg].pc = "done"
            /\ last.ret = tasks[last.arg].result
            /\ last.raised <=> last.ret \in {"authenticate_error", "retry_error"}

\* both requests of a call raised and the caller got the second error
C1_Witness ==
    /\ last.op = "do_request"
    /\ last.ret = "retry_error"
    /\ last.raised
    /\ tasks[last.arg].attempts = 2
    /\ tasks[last.arg].auths = 1

\* C11: once a listener is registered, every change of the manager's cookies
\* (the cookie jar's update_cookies, update_cookie on the session, the deletion
\* and re-issue of ScAuthTokenData in refresh_credentials) calls the listener,
\* with the full current cookie list.
C11_CookieChangeNotifies ==
    [][(/\ cookie_jar.cookies_updated_callback # None
        /\ \/ cookie_jar'.cookies # cookie_jar.cookies
           \/ current_session'.cookies # current_session.cookies)
         => \E i \in 1..Len(last'.ev) :
              /\ last'.ev[i].e = "cookies_updated"
              /\ last'.ev[i].v \in {cookie_jar'.cookies, current_session'.cookies}]_vars

\* C12: get_played_games returns the id of every games_played entry whose
\* platform is "PC" and of no other entry, in the order of the document, one
\* per entry (<<>> when there is none); when _get_user_json raises it raises
\* and returns nothing.
C12_PlayedGamesArePCIds ==
    last.op = "get_played_games" =>
        LET played_games == last.arg
            pc == {i \in 1..Len(played_games) : played_games[i].platform = "PC"}
        IN  /\ ~last.raised =>
                 /\ Len(last.ret) = Cardinality(pc)
                 /\ \A i \in pc :
                      last.ret[Cardinality({j \in pc : j <= i})] = played_games[i].id
                 /\ pc = {} => last.ret = <<>>
                 /\ NumberOf(last.ev, "new_auth") = 1
            /\ NumberOf(last.ev, "new_auth") = 0 => last.raised
            /\ last.raised => last.ret = None

\* two PC entries with different ids around an entry of another platform
C12_Witness ==
    /\ last.op = "get_played_games"
    /\ ~last.raised
    /\ last.arg = <<[id |-> "A", platform |-> "PC"], [id |-> "B", platform |-> "PS4"],
                    [id |-> "B", platform |-> "PC"]>>
    /\ last.ret = <<"A", "B">>

\* C13: a get_json_from_request_strict call, like a do_request call, issues
\* its request at most twice and runs authenticate() at most once: after a
\* second failed request it ends, whatever the provider answers.
C13_StrictRetriesOnce ==
    \A t \in Tasks :
        /\ tasks[t].attempts <= 2
        /\ tasks[t].auths <= 1

\* refresh_credentials has just failed after deleting the ScAuthTokenData cookie
RefreshFailedLate(l) ==
    /\ NumberOf(l.ev, "delete_auth_cookie") = 1
    /\ NumberOf(l.ev, "refresh_new_auth") = 0

UserJsonCalls == {"_get_user_json", "_get_bearer", "get_played_games"}

\* C14 as stated: when refresh_credentials fails after deleting the
\* ScAuthTokenData cookie, the cookie is absent from the session afterwards,
\* the cached auth token is None, the refresh token holds the value written
\* from the RMT cookie (or ""), and the auth-lost flag is as it was; the
\* _get_user_json, _get_bearer and get_played_games calls that follow raise
\* until update_cookie supplies an ScAuthTokenData cookie.
C14_NoRollbackCookieAbsent ==
    [][/\ RefreshFailedLate(last')
            => /\ last'.raised
               /\ current_session'.cookies["ScAuthTokenData"] = NoCookie
               /\ current_auth_token' = None
               /\ get_token(refresh_token') = ValueOf(last'.ev, "set_refresh_token")
               /\ auth_lost_callback' =
                    (IF AuthenticateRan(last') THEN ValueOf(last'.ev, "authenticate")
                     ELSE auth_lost_callback)
       /\ (last'.op \in UserJsonCalls /\ Cookie("ScAuthTokenData") = NoCookie)
            => last'.raised
       /\ (Cookie("ScAuthTokenData") = NoCookie
             /\ current_session'.cookies["ScAuthTokenData"] # NoCookie)
            => last'.op = "update_cookie"]_vars

\* C14: when refresh_credentials fails after deleting the ScAuthTokenData
\* cookie, the cached auth token is None afterwards, the refresh token holds
\* the value written from the RMT cookie (or ""), the auth-lost flag is as it
\* was, and the cookie is absent unless the login POST was issued and its
\* response set one; the _get_user_json, _get_bearer and get_played_games
\* calls that follow raise before sending a request while the cached token is
\* None or the cookie is absent; only set_current_auth_token or a
\* refresh_credentials that succeeds sets the cached token again, and only
\* update_cookie or a login response supplies the cookie again.
C14_NoRollback ==
    [][/\ RefreshFailedLate(last')
            => /\ last'.raised
               /\ NumberOf(last'.ev, "login") = 0
                    => current_session'.cookies["ScAuthTokenData"] = NoCookie
               /\ current_auth_token' = None
               /\ get_token(refresh_token') = ValueOf(last'.ev, "set_refresh_token")
               /\ auth_lost_callback' =
                    (IF AuthenticateRan(last') THEN ValueOf(last'.ev, "authenticate")
                     ELSE auth_lost_callback)
       /\ (/\ last'.op \in UserJsonCalls
           /\ \/ Cookie("ScAuthTokenData") = NoCookie
              \/ current_auth_token = None)
            => /\ last'.raised
               /\ NumberOf(last'.ev, "get-user.json") = 0
       /\ (current_auth_token = None /\ current_auth_token' # None)
            => \/ last'.op = "set_current_auth_token"
               \/ NumberOf(last'.ev, "refresh_new_auth") = 1
       /\ (Cookie("ScAuthTokenData") = NoCookie
             /\ current_session'.cookies["ScAuthTokenData"] # NoCookie)
            => \/ last'.op = "update_cookie"
               \/ NumberOf(last'.ev, "login") = 1]_vars

\* authenticate() was called with the flag set and its refresh failed after
\* the login POST, whose response had set an ScAuthTokenData cookie
C14_Witness ==
    /\ last.op = "authenticate"
    /\ RefreshFailedLate(last)
    /\ last.raised
    /\ HasEvent("login")
    /\ Cookie("ScAuthTokenData") # NoCookie
    /\ current_auth_token = None
    /\ auth_lost_callback = "True"

\* C15 as stated: a _get_user_json, _get_bearer, get_played_games,
\* refresh_credentials or authenticate call that raises has not called
\* store_credentials.
C15_FailedCallsStoreNothing ==
    [][last'.raised => NumberOf(last'.ev, "store_credentials") = 0]_vars

\* C15: a call that raises has called store_credentials only from a
\* _get_user_json that had seen the ScAuthTokenData cookie change while a user
\* was set (the store comes before the body is parsed); refresh_credentials
\* never stores, and an authenticate() that raises has not stored its new user.
C15_FailedCallsStoreOnlyRotations ==
    [][last'.raised =>
         /\ \A i \in 1..Len(last'.ev) :
              last'.ev[i].e = "store_credentials"
                => /\ last'.ev[i].v = "_get_user_json"
                   /\ i > 1
                   /\ last'.ev[i-1].e = "auth_change"
                   /\ last'.had_user
                   /\ \A j \in 1..i : last'.ev[j].e # "getbasicprofile"
         /\ NumberOf(last'.ev, "set_user") = 0
         /\ last'.op = "refresh_credentials"
              => NumberOf(last'.ev, "store_credentials") = 0]_vars

\* a profile response with a new ScAuthTokenData cookie and a body that did
\* not parse: the call raised after storing credentials
C15_Witness ==
    /\ last.op \in UserJsonCalls
    /\ last.raised
    /\ NumberOf(last.ev, "auth_change") = 1
    /\ NumberOf(last.ev, "store_credentials") = 1
    /\ user # NoUser

\* the cached auth token and the ScAuthTokenData cookie agree
TokenMirrorsCookie(token, jar) ==
    \/ token = None /\ jar["ScAuthTokenData"] = NoCookie
    \/ token # None /\ token = jar["ScAuthTokenData"]

\* C16 as stated: in every state between two operations the cached auth token
\* is the value of the session's ScAuthTokenData cookie, or both are absent.
C16_TokenMirrorsCookie == TokenMirrorsCookie(current_auth_token, current_session.cookies)

\* C16: the cached auth token is the value of the session's ScAuthTokenData
\* cookie right after every _get_user_json, _get_bearer, get_played_games,
\* refresh_credentials and authenticate call that returns; update_cookie and
\* create_session leave the cached token as it was and set_current_auth_token
\* leaves the cookies as they were, so between other operations the two may
\* differ.
C16_TokenMirrorsCookieAfterSuccess ==
    [][/\ (/\ last'.op \in UserJsonCalls \cup {"refresh_credentials", "authenticate"}
           /\ ~last'.raised)
            => /\ current_auth_token' # None
               /\ TokenMirrorsCookie(current_auth_token', current_session'.cookies)
       /\ last'.op \in {"update_cookie", "create_session"}
            => current_auth_token' = current_auth_token
       /\ last'.op = "set_current_auth_token"
            => /\ current_auth_token' = last'.arg
               /\ current_session' = current_session]_vars

\* a refresh has just given the session a new cookie and cached its value,
\* after a state in which the cached token was not the cookie's value
C16_Witness ==
    /\ last.op = "refresh_credentials"
    /\ ~last.raised
    /\ ValueOf(last.ev, "delete_auth_cookie") # ValueOf(last.ev, "refresh_new_auth")
    /\ current_auth_token = ValueOf(last.ev, "refresh_new_auth")
    /\ current_auth_token = Cookie("ScAuthTokenData")

\* C17: create_session(None) installs a new session with no cookies and
\* max_redirects 300, whatever session there was; create_session(stored) with
\* no session installs the unpickled stored session with its cookies cleared;
\* create_session(stored) with a session leaves the session and its cookies as
\* they are. None of them changes user, the cached auth token, the refresh
\* token, the fingerprint or the auth-lost flag.
C17_CreateSessionCases ==
    [][last'.op = "create_session" =>
         /\ ~last'.raised
         /\ last'.arg = None
              => current_session' = [live |-> TRUE, max_redirects |-> 300,
                                     cookies |-> EmptyJar]
         /\ (last'.arg = "stored" /\ ~current_session.live)
              => /\ current_session'.live
                 /\ current_session'.cookies = EmptyJar
                 /\ current_session' =
                      [Unpickle(stored["session_object"]) EXCEPT !.cookies = EmptyJar]
         /\ (last'.arg = "stored" /\ current_session.live)
              => current_session' = current_session
         /\ UNCHANGED <<user, current_auth_token, refresh_token, fingerprint,
                        auth_lost_callback, bearer>>]_vars

\* create_session(stored) has just run on a manager whose session holds
\* cookies, with a stored session that differs from it
C17_Witness ==
    /\ last.op = "create_session"
    /\ last.arg = "stored"
    /\ last.ev[1].v = "live"
    /\ current_session.cookies # EmptyJar
    /\ current_session # Unpickle(stored["session_object"])
    /\ user # NoUser

\* C18: get_credentials() only reads: a call leaves user, the session, the
\* cached auth token, the refresh token, the fingerprint and the auth-lost flag
\* as they were, and after any calls (those inside authenticate() and
\* _get_user_json included) user holds the display name and the account id and
\* nothing else.
C18_GetCredentialsOnlyReads ==
    [][/\ last'.op = "get_credentials"
            => UNCHANGED <<user, current_session, current_auth_token,
                           refresh_token, fingerprint, auth_lost_callback>>
       /\ user' # NoUser => DOMAIN user' = {"display_name", "rockstar_id"}]_vars

\* the session holds no rsso cookie, or the refresh token is unset or expired
NoUsableCredential ==
    \/ locate_rsso(current_session.cookies) = None
    \/ get_token(refresh_token) = None
    \/ get_expiration(refresh_token) = NoneTime
    \/ get_expiration(refresh_token) <= now

\* C19: when refresh_credentials runs (from authenticate() with the flag set,
\* or directly) and the session holds no rsso cookie or the refresh token is
\* unset or expired, it raises before any request: no cors-check and no login
\* POST is issued, the session's cookies and the cached auth token are left as
\* they were, the auth-lost flag stays as it was, and the call raises.
C19_NoCredentialsNoRequest ==
    [][(NumberOf(last'.ev, "refresh_credentials") = 1 /\ NoUsableCredential)
         => /\ last'.raised
            /\ \A i \in 1..Len(last'.ev) :
                 last'.ev[i].e \notin {"cors_check", "login", "get-user.json",
                                       "getbasicprofile", "delete_auth_cookie"}
            /\ current_session' = current_session
            /\ current_auth_token' = current_auth_token
            /\ auth_lost_callback' = auth_lost_callback
            /\ last'.op = "authenticate" => auth_lost_callback' # None
            /\ user' = user]_vars

\* authenticate() was called with the flag set, an rsso cookie in the session
\* and a refresh token that had expired
C19_Witness ==
    /\ last.op = "authenticate"
    /\ last.raised
    /\ NumberOf(last.ev, "refresh_credentials") = 1
    /\ \E i \in 1..Len(last.ev) : last.ev[i] = [e |-> "locate_rsso", v |-> "rssoA"]
    /\ NumberOf(last.ev, "cors_check") = 0
    /\ get_token(refresh_token) = None
    /\ now >= RefreshLifetime
    /\ Cookie("ScAuthTokenData") = "t1"
    /\ auth_lost_callback = "True"

\* C20: tasks are suspended only in the requests of do_request, so the except
\* clause of a do_request (flag, authenticate(), refresh_credentials) is one
\* step. With do_request calls interleaved: every first request that raises
\* starts exactly one refresh_credentials, run by the authenticate() of the same
\* call, which reads the flag that call has set; the steps of that run are not
\* mixed with another call's; and every call issues at most two requests.
C20_HandlerIsOneStep ==
    /\ \A t \in Tasks : tasks[t].attempts <= 2
    /\ NumberOf(last.ev, "refresh_credentials") <= 1
    /\ NumberOf(last.ev, "auth_lost") <= 1
    /\ (last.op = "do_request" /\ last.ev # <<>>)
         => LET ev == last.ev
                Steps == {RefreshSteps[k] : k \in 1..Len(RefreshSteps)}
            IN  /\ Len(ev) >= 3
                /\ ev[1].e = "auth_lost"
                /\ ev[2] = [e |-> "authenticate", v |-> "True"]
                /\ ev[3].e = "refresh_credentials"
                /\ NumberOf(ev, "refresh_credentials") = 1
                /\ \A i \in 3..Len(ev) :
                     ev[i].e \in Steps => \A j \in 3..i : ev[j].e \in Steps
                /\ tasks[last.arg].auths = 1
    /\ \A t \in Tasks :
         tasks[t].pc \in {"retry"} \/ tasks[t].result \in {"retry_ok", "retry_error",
                                                         "authenticate_error"}
           => tasks[t].auths = 1

\* the except clause of one call has just run its refresh to the end while
\* the other call, which had run its own before, is suspended in its retry
C20_Witness ==
    /\ last.op = "do_request"
    /\ HasEvent("flag_cleared")
    /\ tasks[last.arg].pc = "retry"
    /\ \E k \in Tasks \ {last.arg} : tasks[k].pc = "retry" /\ tasks[k].auths = 1

====
